---- MODULE Spec2Model ----
(***************************************************************************)
(* buffer::CircularBuffer<T, buffer_size, index_t> of                      *)
(* include/CircularBuffer.h, instantiated with a one-byte index type as in *)
(* examples/main.cpp (index_t = uint8_t), and with buffer_size = 2.        *)
(*                                                                         *)
(* Integer model.  index_t is narrower than int, so every operand of type  *)
(* index_t is promoted to int before arithmetic: m_head - m_tail is the    *)
(* true (possibly negative) difference of the two stored counters.  Where  *)
(* that int meets a size_t (buffer_size, cnt, index, count) it is          *)
(* converted to size_t, i.e. taken modulo 2^64.  A size_t value is written *)
(* here by its representative in (-2^31, 2^31): a negative n stands for    *)
(* 2^64 + n.  Equality of representatives is equality of the values,       *)
(* SizeLT/SizeLE compare them as unsigned numbers, and a conversion back   *)
(* to index_t is the residue modulo 2^IndexBits (2^IndexBits divides 2^64).*)
(***************************************************************************)
EXTENDS Integers, Sequences, FiniteSets, TLC

\* index_t = uint8_t: the width of m_head and m_tail in bits.
IndexBits == 8

\* The template parameter buffer_size (a power of two).
buffer_size == 2

\* The element value a default-constructed element holds (DataPoint()).
DefaultValue == 0

\* The null pointer returned by peek() and at().
NULL == -1

\* The values callers insert.
Values == {1, 2}

\* Largest count / index / source length a caller passes.
MaxCount == 3

\* The model follows a run while readAvailable() <= buffer_size + MaxOverrun.
MaxOverrun == 1

VARIABLES
    m_head,      \* index_t m_head
    m_tail,      \* index_t m_tail
    m_dataBuff,  \* T m_dataBuff[buffer_size], indexed 0 .. buffer_size-1
    call,        \* the caller's position: Idle between two calls, or the call
                 \* that has just returned, [op, arg, ret, out]
    fifo,        \* history: the values accepted (insert returned true / counted
                 \* by writeBuff) and not yet removed or cleared, oldest first
    inst,        \* the instantiation of the template: [size, bits] for
                 \* CircularBuffer<T, size, uint<bits>_t>
    twin,        \* a second, default-constructed object that receives the
                 \* same calls: [head, tail, buf, ret, out]
    thr          \* the positions and locals of a producer and a consumer
                 \* thread inside insert(const T*) and remove(T*)

\* call.op changes at every step; it comes first so that two positions are told
\* apart by it.
vars == <<call.op, m_head, m_tail, m_dataBuff, call, fifo, inst, twin, thr>>

----------------------------------------------------------------------------
(* Integer helpers *)

IndexMod == 2 ^ IndexBits

\* Conversion of an int or size_t value to index_t.
ToIndex(x) == x % IndexMod

\* a < b for two size_t values given by their representatives.
SizeLT(a, b) == IF (a < 0) = (b < 0) THEN a < b ELSE b < 0

\* a <= b for two size_t values given by their representatives.
SizeLE(a, b) == a = b \/ SizeLT(a, b)

\* Bitwise AND of two non-negative integers.
RECURSIVE BitAnd(_, _)
BitAnd(a, b) ==
    IF a = 0 \/ b = 0 THEN 0
    ELSE (a % 2) * (b % 2) + 2 * BitAnd(a \div 2, b \div 2)

\* const static index_t buffer_mask = buffer_size - 1
buffer_mask == ToIndex(buffer_size - 1)

\* The physical slot of a counter value: counter & buffer_mask.
Slot(counter) == BitAnd(counter, buffer_mask)

----------------------------------------------------------------------------
(* The member functions, as functions of the object state                  *)
(* s = [head, tail, buf].  A pointer into m_dataBuff is its slot number.    *)

\* index_t readAvailable() const { return m_head - m_tail; }
readAvailable(s) == ToIndex(s.head - s.tail)

\* index_t writeAvailable() const { return buffer_size - (m_head - m_tail); }
writeAvailable(s) == ToIndex(buffer_size - (s.head - s.tail))

isEmpty(s) == readAvailable(s) = 0

isFull(s) == writeAvailable(s) = 0

\* clear resetting the head to the tail.
clear_ResetHead(s) == [s EXCEPT !.head = s.tail]

\* void clear() { m_tail = m_head; }
clear(s) == [s EXCEPT !.tail = s.head]

\* bool insert(T data): the int m_head - m_tail is converted to size_t and
\* compared with buffer_size.
insert(s, data) ==
    IF (s.head - s.tail) = buffer_size
    THEN [st |-> s, ret |-> FALSE]
    ELSE [st  |-> [s EXCEPT !.buf[Slot(s.head)] = data,
                            !.head = ToIndex(s.head + 1)],
          ret |-> TRUE]

\* bool insert(const T *data), with *data = data.
insertPtr(s, data) ==
    IF (s.head - s.tail) = buffer_size
    THEN [st |-> s, ret |-> FALSE]
    ELSE [st  |-> [s EXCEPT !.buf[Slot(s.head)] = data,
                            !.head = ToIndex(s.head + 1)],
          ret |-> TRUE]

\* bool remove()
remove(s) ==
    IF s.tail = s.head
    THEN [st |-> s, ret |-> FALSE]
    ELSE [st |-> [s EXCEPT !.tail = ToIndex(s.tail + 1)], ret |-> TRUE]

\* removeN without the clamp of cnt to the elements available.
removeN_NoClamp(s, cnt) ==
    [st |-> [s EXCEPT !.tail = ToIndex(s.tail + cnt)], ret |-> cnt]

\* size_t remove(size_t cnt)
removeN(s, cnt) ==
    LET avail == ToIndex(s.head - s.tail)
        n     == IF SizeLT(avail, cnt) THEN avail ELSE cnt
    IN  [st |-> [s EXCEPT !.tail = ToIndex(s.tail + n)], ret |-> n]

\* removeOut with the copy made before the emptiness test.
removeOut_CopyFirst(s, data) ==
    IF s.tail = s.head
    THEN [st |-> s, ret |-> FALSE, out |-> s.buf[Slot(s.tail)]]
    ELSE [st  |-> [s EXCEPT !.tail = ToIndex(s.tail + 1)],
          ret |-> TRUE,
          out |-> s.buf[Slot(s.tail)]]

\* bool remove(T *data); data is the content of *data before the call, out its
\* content after it.
removeOut(s, data) ==
    IF s.tail = s.head
    THEN [st |-> s, ret |-> FALSE, out |-> data]
    ELSE [st  |-> [s EXCEPT !.tail = ToIndex(s.tail + 1)],
          ret |-> TRUE,
          out |-> s.buf[Slot(s.tail)]]

\* bool remove(T &data) { return remove(&data); }
removeRef(s, data) == removeOut(s, data)

\* peek returning the slot after the oldest element.
peek_Next(s) == IF s.tail = s.head THEN NULL ELSE Slot(s.tail + 1)

\* T *peek()
peek(s) == IF s.tail = s.head THEN NULL ELSE Slot(s.tail)

\* T *at(size_t index): the int m_head - m_tail is converted to size_t and
\* compared with index.
at(s, index) ==
    IF SizeLE(s.head - s.tail, index) THEN NULL ELSE Slot(s.tail + index)

\* writeLoop storing through a head that is advanced before the store.
RECURSIVE writeLoop_PreIncrement(_, _, _, _)
writeLoop_PreIncrement(s, buff, i, to_write) ==
    IF i < to_write
    THEN writeLoop_PreIncrement(
             [s EXCEPT !.buf[Slot(ToIndex(s.head + 1))] = buff[i + 1],
                       !.head = ToIndex(s.head + 1)],
             buff, i + 1, to_write)
    ELSE s

\* The loop of writeBuff from iteration i on.
RECURSIVE writeLoop(_, _, _, _)
writeLoop(s, buff, i, to_write) ==
    IF i < to_write
    THEN writeLoop([s EXCEPT !.buf[Slot(s.head)] = buff[i + 1],
                             !.head = ToIndex(s.head + 1)],
                   buff, i + 1, to_write)
    ELSE s

\* size_t writeBuff(const T *buff, size_t count); buff[i] of the code is
\* buff[i + 1] here.
writeBuff(s, buff, count) ==
    LET available == ToIndex(buffer_size - (s.head - s.tail))
        to_write  == IF available < count THEN available ELSE count
    IN  [st |-> writeLoop(s, buff, 0, to_write), ret |-> to_write]

\* The loop of readBuff from iteration i on: [st, out].
RECURSIVE readLoop(_, _, _, _)
readLoop(s, buff, i, to_read) ==
    IF i < to_read
    THEN readLoop([s EXCEPT !.tail = ToIndex(s.tail + 1)],
                  [buff EXCEPT ![i + 1] = s.buf[Slot(s.tail)]],
                  i + 1, to_read)
    ELSE [st |-> s, out |-> buff]

\* size_t readBuff(T *buff, size_t count); buff is the caller's array before
\* the call, out the array after it.
readBuff(s, buff, count) ==
    LET available == ToIndex(s.head - s.tail)
        to_read   == IF available < count THEN available ELSE count
        r         == readLoop(s, buff, 0, to_read)
    IN  [st |-> r.st, ret |-> to_read, out |-> r.out]

----------------------------------------------------------------------------
(* The state machine: one action per public member function *)

cur == [head |-> m_head, tail |-> m_tail, buf |-> m_dataBuff]

Commit(s) ==
    /\ m_head' = s.head
    /\ m_tail' = s.tail
    /\ m_dataBuff' = s.buf

\* Sequences over Values of length 0 .. MaxCount: the arrays passed to writeBuff.
Sources == UNION {[1..n -> Values] : n \in 0..MaxCount}

\* The caller's destination array before readBuff.
FreshDest == [i \in 1..MaxCount |-> DefaultValue]

\* The first n elements of a sequence.
Take(seq, n) == [i \in 1..n |-> seq[i]]

\* A sequence without its first n elements.
Drop(seq, n) == [i \in 1..(Len(seq) - n) |-> seq[i + n]]

\* The caller is between two calls.
Idle == [op |-> "idle", arg |-> 0, ret |-> 0, out |-> 0]

\* A call is made when the caller is between two calls, and while the run is
\* followed.
CallOK == call.op = "idle" /\ readAvailable(cur) <= buffer_size + MaxOverrun

\* The instantiation the sequential machine runs.
ModelInst == [size |-> buffer_size, bits |-> IndexBits]

\* The object CircularBuffer() leaves, with no call made on it yet.
Constructed ==
    [head |-> 0, tail |-> 0,
     buf  |-> [i \in 0..(buffer_size - 1) |-> DefaultValue],
     ret  |-> 0, out |-> 0]

\* Both threads outside any call.
NoCall ==
    [ppc |-> "idle", pdata |-> DefaultValue, pslot |-> 0, pret |-> FALSE,
     cpc |-> "idle", cslot |-> 0, cout |-> DefaultValue, cret |-> FALSE,
     expect |-> DefaultValue, hit |-> FALSE, begun |-> 0]

\* CircularBuffer(): m_head(0), m_tail(0); the elements are default-constructed.
Init ==
    /\ m_head = 0
    /\ m_tail = 0
    /\ m_dataBuff = [i \in 0..(buffer_size - 1) |-> DefaultValue]
    /\ call = Idle
    /\ fifo = <<>>
    /\ inst = ModelInst
    /\ twin = Constructed
    /\ thr = NoCall

Insert ==
    \E data \in Values :
        LET r == insert(cur, data) IN
        /\ CallOK
        /\ UNCHANGED <<inst, twin, thr>>
        /\ Commit(r.st)
        /\ call' = [op |-> "insert", arg |-> data, ret |-> r.ret, out |-> 0]
        /\ fifo' = IF r.ret THEN Append(fifo, data) ELSE fifo

InsertPtr ==
    \E data \in Values :
        LET r == insertPtr(cur, data) IN
        /\ CallOK
        /\ UNCHANGED <<inst, twin, thr>>
        /\ Commit(r.st)
        /\ call' = [op |-> "insertPtr", arg |-> data, ret |-> r.ret, out |-> 0]
        /\ fifo' = IF r.ret THEN Append(fifo, data) ELSE fifo

Remove ==
    LET r == remove(cur) IN
    /\ CallOK
    /\ UNCHANGED <<inst, twin, thr>>
    /\ Commit(r.st)
    /\ call' = [op |-> "remove", arg |-> 0, ret |-> r.ret, out |-> 0]
    /\ fifo' = IF r.ret THEN Tail(fifo) ELSE fifo

RemoveN ==
    \E cnt \in 0..MaxCount :
        LET r == removeN(cur, cnt) IN
        /\ CallOK
        /\ UNCHANGED <<inst, twin, thr>>
        /\ Commit(r.st)
        /\ call' = [op |-> "removeN", arg |-> cnt, ret |-> r.ret, out |-> 0]
        /\ fifo' = Drop(fifo, r.ret)

RemoveOut ==
    \E data \in Values \cup {DefaultValue} :
        LET r == removeOut(cur, data) IN
        /\ CallOK
        /\ UNCHANGED <<inst, twin, thr>>
        /\ Commit(r.st)
        /\ call' = [op |-> "removeOut", arg |-> data, ret |-> r.ret, out |-> r.out]
        /\ fifo' = IF r.ret THEN Tail(fifo) ELSE fifo

RemoveRef ==
    \E data \in Values \cup {DefaultValue} :
        LET r == removeRef(cur, data) IN
        /\ CallOK
        /\ UNCHANGED <<inst, twin, thr>>
        /\ Commit(r.st)
        /\ call' = [op |-> "removeRef", arg |-> data, ret |-> r.ret, out |-> r.out]
        /\ fifo' = IF r.ret THEN Tail(fifo) ELSE fifo

Peek ==
    /\ CallOK
    /\ UNCHANGED <<inst, twin, thr>>
    /\ call' = [op |-> "peek", arg |-> 0, ret |-> peek(cur), out |-> 0]
    /\ UNCHANGED <<m_head, m_tail, m_dataBuff, fifo>>

At ==
    \E index \in 0..MaxCount :
        /\ CallOK
        /\ UNCHANGED <<inst, twin, thr>>
        /\ call' = [op |-> "at", arg |-> index, ret |-> at(cur, index), out |-> 0]
        /\ UNCHANGED <<m_head, m_tail, m_dataBuff, fifo>>

WriteBuff ==
    \E buff \in Sources :
        LET r == writeBuff(cur, buff, Len(buff)) IN
        /\ CallOK
        /\ UNCHANGED <<inst, twin, thr>>
        /\ Commit(r.st)
        /\ call' = [op |-> "writeBuff", arg |-> buff, ret |-> r.ret, out |-> 0]
        /\ fifo' = fifo \o Take(buff, r.ret)

ReadBuff ==
    \E count \in 0..MaxCount :
        LET r == readBuff(cur, FreshDest, count) IN
        /\ CallOK
        /\ UNCHANGED <<inst, twin, thr>>
        /\ Commit(r.st)
        /\ call' = [op |-> "readBuff", arg |-> count, ret |-> r.ret, out |-> r.out]
        /\ fifo' = Drop(fifo, r.ret)

Clear ==
    /\ CallOK
    /\ UNCHANGED <<inst, twin, thr>>
    /\ Commit(clear(cur))
    /\ call' = [op |-> "clear", arg |-> 0, ret |-> 0, out |-> 0]
    /\ fifo' = <<>>

ReadAvailable ==
    /\ CallOK
    /\ UNCHANGED <<inst, twin, thr>>
    /\ call' = [op |-> "readAvailable", arg |-> 0, ret |-> readAvailable(cur), out |-> 0]
    /\ UNCHANGED <<m_head, m_tail, m_dataBuff, fifo>>

WriteAvailable ==
    /\ CallOK
    /\ UNCHANGED <<inst, twin, thr>>
    /\ call' = [op |-> "writeAvailable", arg |-> 0, ret |-> writeAvailable(cur), out |-> 0]
    /\ UNCHANGED <<m_head, m_tail, m_dataBuff, fifo>>

IsEmpty ==
    /\ CallOK
    /\ UNCHANGED <<inst, twin, thr>>
    /\ call' = [op |-> "isEmpty", arg |-> 0, ret |-> isEmpty(cur), out |-> 0]
    /\ UNCHANGED <<m_head, m_tail, m_dataBuff, fifo>>

IsFull ==
    /\ CallOK
    /\ UNCHANGED <<inst, twin, thr>>
    /\ call' = [op |-> "isFull", arg |-> 0, ret |-> isFull(cur), out |-> 0]
    /\ UNCHANGED <<m_head, m_tail, m_dataBuff, fifo>>

\* The caller takes the result of the call that returned.
Return ==
    /\ call.op \notin {"idle", "drain"}
    /\ call' = Idle
    /\ UNCHANGED <<inst, twin, thr>>
    /\ UNCHANGED <<m_head, m_tail, m_dataBuff, fifo>>

Next ==
    \/ Insert
    \/ InsertPtr
    \/ Remove
    \/ RemoveN
    \/ RemoveOut
    \/ RemoveRef
    \/ Peek
    \/ At
    \/ WriteBuff
    \/ ReadBuff
    \/ Clear
    \/ ReadAvailable
    \/ WriteAvailable
    \/ IsEmpty
    \/ IsFull
    \/ Return

Spec == Init /\ [][Next]_vars

----------------------------------------------------------------------------
(* Shorthands of the properties *)

\* The value held at logical position i (0 = oldest) of the state s.
Element(s, i) == s.buf[Slot(s.tail + i)]

\* The transition is a call of one of the named member functions.
Calls(ops) == call.op = "idle" /\ call'.op \in ops

\* The object after the step.
nxt == [head |-> m_head', tail |-> m_tail', buf |-> m_dataBuff']

\* The object is left as it was.
ObjectUnchanged == UNCHANGED <<m_head, m_tail, m_dataBuff>>

Min(a, b) == IF a < b THEN a ELSE b

----------------------------------------------------------------------------
(* C1 .. C10 *)

\* C1: FIFO order.  In every reachable state the buffer equals the queue of the
\* values accepted and not yet removed: readAvailable() is its length and the
\* slot m_dataBuff[(m_tail + i) & buffer_mask] holds its i-th oldest value, so
\* every successful remove(out) delivers the oldest such value.
C1_FifoOrder ==
    /\ readAvailable(cur) = Len(fifo)
    /\ \A i \in 0..(Len(fifo) - 1) : Element(cur, i) = fifo[i + 1]

\* C2: occupancy invariant.  In every reachable state
\* 0 <= readAvailable() <= buffer_size and
\* readAvailable() + writeAvailable() = buffer_size.
C2_Occupancy ==
    /\ 0 <= readAvailable(cur)
    /\ readAvailable(cur) <= buffer_size
    /\ readAvailable(cur) + writeAvailable(cur) = buffer_size

\* C3: insert on a full buffer is rejected without mutation.  Every call of
\* insert(T) or insert(const T *) made when readAvailable() = buffer_size
\* returns false and leaves m_head, m_tail and m_dataBuff unchanged.
C3_InsertFullRejected ==
    [][(Calls({"insert", "insertPtr"}) /\ readAvailable(cur) = buffer_size)
          => (call'.ret = FALSE /\ ObjectUnchanged)]_vars

\* C4: underflow is rejected without mutation.  Every call made when
\* readAvailable() = 0: remove() and remove(out) return false, peek() returns
\* NULL, the caller's out variable keeps the content it had before the call,
\* and m_head, m_tail and m_dataBuff are unchanged.
C4_UnderflowRejected ==
    [][(readAvailable(cur) = 0) =>
          /\ Calls({"remove", "removeOut", "removeRef"})
                => (call'.ret = FALSE /\ ObjectUnchanged)
          /\ Calls({"removeOut", "removeRef"}) => call'.out = call'.arg
          /\ Calls({"peek"}) => (call'.ret = NULL /\ ObjectUnchanged)]_vars

\* C4 witness: after the counters have wrapped, remove(out) was called on an
\* empty buffer with a non-default value in out, returned false and left out.
C4_Witness ==
    /\ call.op = "removeOut"
    /\ call.ret = FALSE
    /\ call.arg \in Values
    /\ call.out = call.arg
    /\ m_head = m_tail
    /\ m_head < buffer_size
    /\ m_dataBuff[Slot(m_tail)] # call.arg
    /\ \A i \in 0..(buffer_size - 1) : m_dataBuff[i] \in Values

\* A buffer with the occupancy and the contents of s, in the same slots, whose
\* counters have not wrapped.
Unwrapped(s) ==
    [head |-> Slot(s.tail) + readAvailable(s), tail |-> Slot(s.tail), buf |-> s.buf]

\* Two object states show the same buffer: occupancy, free space, slots in use
\* and slot contents.
SameBuffer(a, b) ==
    /\ readAvailable(a) = readAvailable(b)
    /\ writeAvailable(a) = writeAvailable(b)
    /\ Slot(a.head) = Slot(b.head)
    /\ Slot(a.tail) = Slot(b.tail)
    /\ a.buf = b.buf

\* C5: counter wraparound is transparent.  In every reachable state holding at
\* most buffer_size elements, between two calls, every operation returns the same result and has
\* the same effect as on the buffer with the same occupancy and contents whose
\* counters have not wrapped.
C5_WrapTransparent ==
    (call.op = "idle" /\ readAvailable(cur) <= buffer_size) =>
        LET u == Unwrapped(cur) IN
        /\ readAvailable(cur) = readAvailable(u)
        /\ writeAvailable(cur) = writeAvailable(u)
        /\ isEmpty(cur) = isEmpty(u)
        /\ isFull(cur) = isFull(u)
        /\ peek(cur) = peek(u)
        /\ remove(cur).ret = remove(u).ret
        /\ SameBuffer(remove(cur).st, remove(u).st)
        /\ \A data \in Values :
              /\ insert(cur, data).ret = insert(u, data).ret
              /\ SameBuffer(insert(cur, data).st, insert(u, data).st)
              /\ insertPtr(cur, data).ret = insertPtr(u, data).ret
              /\ SameBuffer(insertPtr(cur, data).st, insertPtr(u, data).st)
              /\ removeOut(cur, data).ret = removeOut(u, data).ret
              /\ removeOut(cur, data).out = removeOut(u, data).out
              /\ SameBuffer(removeOut(cur, data).st, removeOut(u, data).st)
        /\ \A n \in 0..MaxCount :
              /\ at(cur, n) = at(u, n)
              /\ removeN(cur, n).ret = removeN(u, n).ret
              /\ SameBuffer(removeN(cur, n).st, removeN(u, n).st)
              /\ readBuff(cur, FreshDest, n).ret = readBuff(u, FreshDest, n).ret
              /\ readBuff(cur, FreshDest, n).out = readBuff(u, FreshDest, n).out
              /\ SameBuffer(readBuff(cur, FreshDest, n).st, readBuff(u, FreshDest, n).st)
        /\ \A buff \in Sources :
              /\ writeBuff(cur, buff, Len(buff)).ret = writeBuff(u, buff, Len(buff)).ret
              /\ SameBuffer(writeBuff(cur, buff, Len(buff)).st,
                            writeBuff(u, buff, Len(buff)).st)

\* C6: partial bulk write.  Every call writeBuff(source, count) returns
\* min(count, writeAvailable()), stores the first that-many source elements in
\* source order at the logical positions following the elements held, advances
\* m_head by the returned count, leaves m_tail alone and leaves every slot
\* holding an unread element as it was.
C6_PartialWrite ==
    [][Calls({"writeBuff"}) =>
          LET n == call'.ret IN
          /\ n = Min(Len(call'.arg), writeAvailable(cur))
          /\ m_head' = ToIndex(m_head + n)
          /\ m_tail' = m_tail
          /\ \A i \in 0..(n - 1) :
                Element(nxt, readAvailable(cur) + i) = call'.arg[i + 1]
          /\ \A i \in 0..(readAvailable(cur) - 1) :
                Element(nxt, i) = Element(cur, i)]_vars

\* C7: partial bulk read.  Every call readBuff(dest, count) returns
\* min(count, readAvailable()), copies that many oldest accepted and unremoved
\* values into dest[0 .. returned) in insertion order, leaves the rest of dest
\* as it was, advances m_tail by the returned count and leaves m_head and
\* m_dataBuff unchanged.
C7_PartialRead ==
    [][Calls({"readBuff"}) =>
          LET n == call'.ret IN
          /\ n = Min(call'.arg, readAvailable(cur))
          /\ \A i \in 1..MaxCount :
                call'.out[i] = IF i <= n THEN fifo[i] ELSE FreshDest[i]
          /\ m_tail' = ToIndex(m_tail + n)
          /\ m_head' = m_head
          /\ m_dataBuff' = m_dataBuff]_vars

\* C8: bulk round trip.  Every call of writeBuff on an empty buffer with
\* k <= writeAvailable() source elements returns k, and readBuff of k elements
\* on the buffer it leaves returns k, yields the k source elements in order and
\* leaves the buffer empty.
C8_RoundTrip ==
    [][(Calls({"writeBuff"}) /\ isEmpty(cur)
            /\ Len(call'.arg) <= writeAvailable(cur)) =>
          LET k == Len(call'.arg)
              r == readBuff(nxt, FreshDest, k) IN
          /\ call'.ret = k
          /\ r.ret = k
          /\ Take(r.out, k) = call'.arg
          /\ isEmpty(r.st)
          /\ r.st.tail = r.st.head]_vars

\* C8 witness: writeBuff has written buffer_size elements of two different
\* values into an empty buffer; they straddle the physical end of m_dataBuff,
\* m_head has wrapped and m_tail has not; readBuff gives them back.
C8_Witness ==
    /\ call.op = "writeBuff"
    /\ call.ret = buffer_size
    /\ Len(call.arg) = buffer_size
    /\ call.arg[1] # call.arg[buffer_size]
    /\ readAvailable(cur) = buffer_size
    /\ Slot(m_tail) # 0
    /\ m_head < m_tail
    /\ Take(readBuff(cur, FreshDest, buffer_size).out, buffer_size) = call.arg
    /\ isEmpty(readBuff(cur, FreshDest, buffer_size).st)

\* C9: clamped bulk discard.  Every call remove(count) returns
\* min(count, readAvailable()), advances m_tail by that amount, leaves m_head
\* and m_dataBuff unchanged, and when count >= readAvailable() leaves the
\* buffer empty (isEmpty(), m_tail = m_head).
C9_ClampedDiscard ==
    [][Calls({"removeN"}) =>
          /\ call'.ret = Min(call'.arg, readAvailable(cur))
          /\ m_tail' = ToIndex(m_tail + call'.ret)
          /\ m_head' = m_head
          /\ m_dataBuff' = m_dataBuff
          /\ (call'.arg >= readAvailable(cur)) => (isEmpty(nxt) /\ m_tail' = m_head')]_vars

\* C9 witness: remove(count) was called with count above the elements held,
\* discarded all of them (at least one), and m_tail wrapped with it.
C9_Witness ==
    /\ call.op = "removeN"
    /\ call.ret > 0
    /\ call.arg > call.ret
    /\ m_tail = m_head
    /\ m_tail < call.ret
    /\ isEmpty(cur)

\* C10: checked positional access.  Every call at(i) returns the slot of the
\* i-th oldest unread element when i < readAvailable() and NULL when
\* i >= readAvailable(), and leaves m_head, m_tail and m_dataBuff unchanged.
C10_CheckedAt ==
    [][Calls({"at"}) =>
          /\ ObjectUnchanged
          /\ (call'.arg >= readAvailable(cur)) => call'.ret = NULL
          /\ (call'.arg < readAvailable(cur)) =>
                /\ call'.ret = Slot(m_tail + call'.arg)
                /\ m_dataBuff[call'.ret] = fifo[call'.arg + 1]]_vars

----------------------------------------------------------------------------
(* C11 .. C20 *)

\* C11: peek is non-destructive and agrees with remove.  Every call of peek()
\* on a non-empty buffer returns the slot whose value an immediately following
\* remove(out) stores in out, which is also the slot at(0) returns; the call
\* leaves m_head, m_tail, m_dataBuff and readAvailable() unchanged, so a
\* second peek() returns the same slot.
C11_PeekAgreesWithRemove ==
    [][(Calls({"peek"}) /\ readAvailable(cur) # 0) =>
          /\ call'.ret # NULL
          /\ \A data \in Values \cup {DefaultValue} :
                /\ removeOut(nxt, data).ret = TRUE
                /\ removeOut(nxt, data).out = m_dataBuff[call'.ret]
          /\ at(nxt, 0) = call'.ret
          /\ ObjectUnchanged
          /\ readAvailable(nxt) = readAvailable(cur)
          /\ peek(nxt) = call'.ret]_vars

\* C11 witness: peek() has returned the slot of the oldest of two different
\* unread values, in a buffer whose m_head has wrapped and m_tail has not.
C11_Witness ==
    /\ call.op = "peek"
    /\ call.ret # NULL
    /\ readAvailable(cur) = buffer_size
    /\ m_head < m_tail
    /\ Element(cur, 0) # Element(cur, 1)
    /\ m_dataBuff[call.ret] = fifo[1]
    /\ removeOut(cur, DefaultValue).out = fifo[1]

\* The number of successive insert(data) calls that return true, out of at most
\* n calls, starting in state s.
RECURSIVE InsertsAccepted(_, _, _)
InsertsAccepted(s, data, n) ==
    IF n = 0 \/ ~insert(s, data).ret THEN 0
    ELSE 1 + InsertsAccepted(insert(s, data).st, data, n - 1)

\* C12: clear() empties the buffer by accounting only.  After every call of
\* clear(): m_tail = m_head with m_head unchanged, every slot holds its value,
\* isEmpty() is true, readAvailable() = 0, writeAvailable() = buffer_size, and
\* exactly buffer_size subsequent inserts succeed before one fails.
C12_ClearEmpties ==
    [][Calls({"clear"}) =>
          /\ m_tail' = m_head'
          /\ m_head' = m_head
          /\ m_dataBuff' = m_dataBuff
          /\ isEmpty(nxt)
          /\ readAvailable(nxt) = 0
          /\ writeAvailable(nxt) = buffer_size
          /\ \A data \in Values :
                InsertsAccepted(nxt, data, buffer_size + 1) = buffer_size]_vars

\* One pass of the body of main's first loop on state s: remove(&dpr) when
\* isFull(), then insert(&dpw).  [mid, ret, st]: the state before the insert,
\* the result of the insert and the state after it.
DemoStep(s, dpr, dpw) ==
    LET mid == IF isFull(s) THEN removeOut(s, dpr).st ELSE s
        r   == insertPtr(mid, dpw)
    IN  [mid |-> mid, ret |-> r.ret, st |-> r.st]

\* C16: insert and isFull agree.  Every insert returns false iff isFull() was
\* true immediately before the call, every remove(out) returns false iff
\* isEmpty() was true; and from every state between two calls the demo's
\* pattern (remove one element when isFull(), then insert) has its insert
\* return true and leaves every element that was unread before the insert in
\* place.
C16_InsertAgreesWithIsFull ==
    [][/\ Calls({"insert", "insertPtr"}) =>
              ((call'.ret = FALSE) <=> isFull(cur))
       /\ Calls({"removeOut", "removeRef"}) =>
              ((call'.ret = FALSE) <=> isEmpty(cur))
       /\ call.op = "idle" =>
              \A dpw \in Values :
                  LET d == DemoStep(cur, DefaultValue, dpw) IN
                  /\ d.ret = TRUE
                  /\ \A i \in 0..(readAvailable(d.mid) - 1) :
                         Element(d.st, i) = Element(d.mid, i)]_vars

\* k successive remove() calls from state s: [st, ret], ret the number of
\* calls that returned true.
RECURSIVE RemoveTimes(_, _)
RemoveTimes(s, k) ==
    IF k = 0 THEN [st |-> s, ret |-> 0]
    ELSE LET r    == remove(s)
             rest == RemoveTimes(r.st, k - 1)
         IN  [st |-> rest.st, ret |-> (IF r.ret THEN 1 ELSE 0) + rest.ret]

\* insert(buff[i]), insert(buff[i + 1]), ... from state s until the first
\* insert returns false or count elements are inserted.
RECURSIVE InsertEach(_, _, _, _)
InsertEach(s, buff, i, count) ==
    IF i < count /\ insert(s, buff[i + 1]).ret
    THEN InsertEach(insert(s, buff[i + 1]).st, buff, i + 1, count)
    ELSE [st |-> s, ret |-> i]

\* remove(&dst[i]), remove(&dst[i + 1]), ... from state s until the first
\* remove returns false or count elements are removed.
RECURSIVE RemoveEach(_, _, _, _)
RemoveEach(s, dst, i, count) ==
    IF i < count /\ removeOut(s, dst[i + 1]).ret
    THEN RemoveEach(removeOut(s, dst[i + 1]).st,
                    [dst EXCEPT ![i + 1] = removeOut(s, dst[i + 1]).out],
                    i + 1, count)
    ELSE [st |-> s, ret |-> i, out |-> dst]

\* C18: bulk operations equal repeated single operations.  Every remove(n)
\* leaves the state and returns the count of min(n, readAvailable())
\* successive remove() calls, all of them successful; every writeBuff(src, n)
\* leaves the head, tail and storage of insert(src[0]), insert(src[1]), ...
\* until the first failure or n elements; every readBuff(dst, n) leaves the
\* state and dst of successive remove(out) calls until the first failure or n
\* elements.
C18_BulkEqualsRepeated ==
    [][/\ Calls({"removeN"}) =>
              LET k == Min(call'.arg, readAvailable(cur))
                  r == RemoveTimes(cur, k)
              IN  nxt = r.st /\ call'.ret = r.ret /\ r.ret = k
       /\ Calls({"writeBuff"}) =>
              nxt = InsertEach(cur, call'.arg, 0, Len(call'.arg)).st
       /\ Calls({"readBuff"}) =>
              LET r == RemoveEach(cur, FreshDest, 0, call'.arg)
              IN  nxt = r.st /\ call'.out = r.out /\ call'.ret = r.ret]_vars

\* The elements a call of insert or writeBuff has accepted.
Accepted ==
    IF call'.op = "writeBuff" THEN call'.ret
    ELSE IF call'.ret THEN 1 ELSE 0

\* C19: separation of producer and consumer state.  Every insert and writeBuff
\* leaves m_tail and increases m_head (modulo 2^IndexBits) by the number of
\* elements accepted; every remove(), remove(out), remove(n), readBuff and
\* clear leaves m_head and every slot and advances m_tail by no more than its
\* distance to m_head; every readAvailable, writeAvailable, isEmpty, isFull,
\* peek and at leaves all three.
C19_ProducerConsumerSeparation ==
    [][/\ Calls({"insert", "insertPtr", "writeBuff"}) =>
              /\ m_tail' = m_tail
              /\ m_head' = ToIndex(m_head + Accepted)
       /\ Calls({"remove", "removeOut", "removeRef", "removeN", "readBuff",
                 "clear"}) =>
              /\ m_head' = m_head
              /\ m_dataBuff' = m_dataBuff
              /\ ToIndex(m_tail' - m_tail) <= readAvailable(cur)
              /\ readAvailable(nxt)
                     = readAvailable(cur) - ToIndex(m_tail' - m_tail)
       /\ Calls({"readAvailable", "writeAvailable", "isEmpty", "isFull",
                 "peek", "at"}) =>
              ObjectUnchanged]_vars

\* C19 witness: clear() has moved m_tail to an m_head that earlier inserts had
\* taken around the wrap of the counters (both slots were written, so m_head
\* passed 2 before it came to 1), with the slots kept.
C19_Witness ==
    /\ call.op = "clear"
    /\ m_head = 1
    /\ m_tail = m_head
    /\ Len(fifo) = 0
    /\ m_dataBuff[0] # m_dataBuff[1]
    /\ m_dataBuff[0] # DefaultValue
    /\ m_dataBuff[1] # DefaultValue

----------------------------------------------------------------------------
(* Construction of other instantiations *)

\* The widths of the index types instantiated: uint8_t and uint16_t.
IndexWidths == {8, 16}

\* Largest buffer_size instantiated.
MaxBufferSize == 512

\* CircularBuffer<T, size, uint<bits>_t> for every size and width followed.
Instantiations == [size : 1..MaxBufferSize, bits : IndexWidths]

\* const static index_t buffer_mask = buffer_size - 1: the size_t difference
\* converted to index_t.
buffer_maskOf(i) == (i.size - 1) % (2 ^ i.bits)

\* The condition asserted by the constructor: (buffer_size & buffer_mask) == 0.
AssertionHolds(i) == BitAnd(i.size, buffer_maskOf(i)) = 0

\* The storage of an object about to be constructed.
InitNew ==
    /\ inst \in Instantiations
    /\ m_head = 0
    /\ m_tail = 0
    /\ m_dataBuff = <<>>
    /\ call = [op |-> "new", arg |-> 0, ret |-> 0, out |-> 0]
    /\ fifo = <<>>
    /\ twin = Constructed
    /\ thr = NoCall

\* CircularBuffer(): the initializers m_head(0), m_tail(0) and the default
\* construction of the elements, then the assert; call.ret tells whether the
\* assertion held (the program is aborted when it does not).
Construct ==
    /\ call.op = "new"
    /\ m_head' = 0
    /\ m_tail' = 0
    /\ m_dataBuff' = [i \in 0..(inst.size - 1) |-> DefaultValue]
    /\ call' = [op |-> "CircularBuffer", arg |-> 0,
                ret |-> AssertionHolds(inst), out |-> 0]
    /\ UNCHANGED <<fifo, inst, twin, thr>>

NextConstruct == Construct

SpecConstruct == InitNew /\ [][NextConstruct]_vars

\* n is a power of two.
IsPowerOfTwo(n) == \E k \in 0..30 : n = 2 ^ k

\* C14: misconfiguration is caught at construction.  For every buffer_size and
\* every index type, the assertion of the default constructor fails if and
\* only if buffer_size is not a power of two.
C14_AssertIffNotPowerOfTwo ==
    call.op = "CircularBuffer" =>
        ((call.ret = FALSE) <=> ~IsPowerOfTwo(inst.size))

----------------------------------------------------------------------------
(* The member functions of an instantiation i, on a fresh object that is     *)
(* only written *)

\* index_t readAvailable() of instantiation i.
readAvailableOf(i, s) == (s.head - s.tail) % (2 ^ i.bits)

\* index_t writeAvailable() of instantiation i.
writeAvailableOf(i, s) == (i.size - (s.head - s.tail)) % (2 ^ i.bits)

\* bool isEmpty() of instantiation i.
isEmptyOf(i, s) == readAvailableOf(i, s) = 0

\* bool isFull() of instantiation i.
isFullOf(i, s) == writeAvailableOf(i, s) = 0

\* bool insert(T data) of instantiation i; uint8_t and uint16_t operands are
\* promoted to int.
insertOf(i, s, data) ==
    IF (s.head - s.tail) = i.size
    THEN [st |-> s, ret |-> FALSE]
    ELSE [st  |-> [s EXCEPT !.buf[BitAnd(s.head, buffer_maskOf(i))] = data,
                            !.head = (s.head + 1) % (2 ^ i.bits)],
          ret |-> TRUE]

\* The instantiations with a power-of-two buffer_size that divides
\* 2^(width of index_t).
Dividing ==
    {i \in Instantiations :
        IsPowerOfTwo(i.size) /\ (2 ^ i.bits) % i.size = 0}

\* A freshly constructed object of one of these instantiations.
InitFresh ==
    /\ inst \in Dividing
    /\ m_head = 0
    /\ m_tail = 0
    /\ m_dataBuff = [i \in 0..(inst.size - 1) |-> DefaultValue]
    /\ call = Idle
    /\ fifo = <<>>
    /\ twin = Constructed
    /\ thr = NoCall

\* A call is made between two calls, while no more than MaxOverrun elements
\* beyond buffer_size have been accepted.
FreshCallOK == call.op = "idle" /\ Len(fifo) <= inst.size + MaxOverrun

\* insert(dpw) with the running number of main's loop as the value.
FreshInsert ==
    LET data == Len(fifo) + 1
        r    == insertOf(inst, cur, data)
    IN  /\ FreshCallOK
        /\ Commit(r.st)
        /\ call' = [op |-> "insert", arg |-> data, ret |-> r.ret, out |-> 0]
        /\ fifo' = IF r.ret THEN Append(fifo, data) ELSE fifo
        /\ UNCHANGED <<inst, twin, thr>>

FreshIsEmpty ==
    /\ FreshCallOK
    /\ call' = [op |-> "isEmpty", arg |-> 0, ret |-> isEmptyOf(inst, cur),
                out |-> 0]
    /\ UNCHANGED <<m_head, m_tail, m_dataBuff, fifo, inst, twin, thr>>

FreshIsFull ==
    /\ FreshCallOK
    /\ call' = [op |-> "isFull", arg |-> 0, ret |-> isFullOf(inst, cur),
                out |-> 0]
    /\ UNCHANGED <<m_head, m_tail, m_dataBuff, fifo, inst, twin, thr>>

FreshWriteAvailable ==
    /\ FreshCallOK
    /\ call' = [op |-> "writeAvailable", arg |-> 0,
                ret |-> writeAvailableOf(inst, cur), out |-> 0]
    /\ UNCHANGED <<m_head, m_tail, m_dataBuff, fifo, inst, twin, thr>>

NextFresh ==
    \/ FreshInsert
    \/ FreshIsEmpty
    \/ FreshIsFull
    \/ FreshWriteAvailable
    \/ Return

SpecFresh == InitFresh /\ [][NextFresh]_vars

\* C20: every instantiation whose power-of-two buffer_size divides
\* 2^(index width), buffer_size = 2^(index width) included, is sound: a
\* freshly constructed buffer reports isEmpty() true, isFull() false and
\* writeAvailable() = buffer_size, and of the inserts made on it exactly the
\* first buffer_size return true.
C20_DividingSizesSound ==
    [][/\ (Calls({"isEmpty"}) /\ Len(fifo) = 0) => call'.ret = TRUE
       /\ (Calls({"isFull"}) /\ Len(fifo) = 0) => call'.ret = FALSE
       /\ (Calls({"writeAvailable"}) /\ Len(fifo) = 0) =>
              call'.ret = inst.size
       /\ Calls({"insert"}) =>
              (call'.ret <=> Len(fifo) < inst.size)]_vars

----------------------------------------------------------------------------
(* An object built by CircularBuffer(int) and cleared, beside a default-     *)
(* constructed object that receives the same calls *)

\* The reference object is followed while fewer than MaxInserted elements were
\* inserted into it.
MaxInserted == 3

\* The values an uninitialized element can hold.
Garbage == Values \cup {DefaultValue}

\* CircularBuffer(int dummy): m_head, m_tail and the elements are left as the
\* memory held them.
InitSkip ==
    /\ m_head \in 0..(IndexMod - 1)
    /\ m_tail \in 0..(IndexMod - 1)
    /\ m_dataBuff \in [0..(buffer_size - 1) -> Garbage]
    /\ call = [op |-> "raw", arg |-> 0, ret |-> 0, out |-> 0]
    /\ fifo = <<>>
    /\ inst = ModelInst
    /\ twin = Constructed
    /\ thr = NoCall

\* The members of the reference object.
ref == [head |-> twin.head, tail |-> twin.tail, buf |-> twin.buf]

\* The clear() the caller owes before the first use.
SkipClear ==
    /\ call.op = "raw"
    /\ Commit(clear(cur))
    /\ call' = [op |-> "clear", arg |-> 0, ret |-> 0, out |-> 0]
    /\ UNCHANGED <<fifo, inst, twin, thr>>

TwinCallOK == CallOK /\ twin.head < MaxInserted

\* One call made on both objects: st, ret, out are the state, the return value
\* and the output of the call on the cleared object, tst, tret, tout those of
\* the call on the reference object.
TwinCall(op, arg, st, ret, out, tst, tret, tout) ==
    /\ TwinCallOK
    /\ Commit(st)
    /\ call' = [op |-> op, arg |-> arg, ret |-> ret, out |-> out]
    /\ twin' = [head |-> tst.head, tail |-> tst.tail, buf |-> tst.buf,
                ret |-> tret, out |-> tout]
    /\ UNCHANGED <<inst, thr>>

TwinInsert ==
    \E data \in Values :
        LET r == insert(cur, data)
            t == insert(ref, data)
        IN  /\ TwinCall("insert", data, r.st, r.ret, 0, t.st, t.ret, 0)
            /\ fifo' = IF r.ret THEN Append(fifo, data) ELSE fifo

TwinInsertPtr ==
    \E data \in Values :
        LET r == insertPtr(cur, data)
            t == insertPtr(ref, data)
        IN  /\ TwinCall("insertPtr", data, r.st, r.ret, 0, t.st, t.ret, 0)
            /\ fifo' = IF r.ret THEN Append(fifo, data) ELSE fifo

TwinRemove ==
    LET r == remove(cur)
        t == remove(ref)
    IN  /\ TwinCall("remove", 0, r.st, r.ret, 0, t.st, t.ret, 0)
        /\ fifo' = IF r.ret THEN Tail(fifo) ELSE fifo

TwinRemoveN ==
    \E cnt \in 0..MaxCount :
        LET r == removeN(cur, cnt)
            t == removeN(ref, cnt)
        IN  /\ TwinCall("removeN", cnt, r.st, r.ret, 0, t.st, t.ret, 0)
            /\ fifo' = Drop(fifo, r.ret)

TwinRemoveOut ==
    \E data \in Garbage :
        LET r == removeOut(cur, data)
            t == removeOut(ref, data)
        IN  /\ TwinCall("removeOut", data, r.st, r.ret, r.out,
                        t.st, t.ret, t.out)
            /\ fifo' = IF r.ret THEN Tail(fifo) ELSE fifo

TwinRemoveRef ==
    \E data \in Garbage :
        LET r == removeRef(cur, data)
            t == removeRef(ref, data)
        IN  /\ TwinCall("removeRef", data, r.st, r.ret, r.out,
                        t.st, t.ret, t.out)
            /\ fifo' = IF r.ret THEN Tail(fifo) ELSE fifo

\* peek() and at(): ret is the slot returned, out the element it holds.
Pointee(s, slot) == IF slot = NULL THEN DefaultValue ELSE s.buf[slot]

TwinPeek ==
    /\ TwinCall("peek", 0, cur, peek(cur), Pointee(cur, peek(cur)),
                ref, peek(ref), Pointee(ref, peek(ref)))
    /\ fifo' = fifo

TwinAt ==
    \E index \in 0..MaxCount :
        /\ TwinCall("at", index,
                    cur, at(cur, index), Pointee(cur, at(cur, index)),
                    ref, at(ref, index), Pointee(ref, at(ref, index)))
        /\ fifo' = fifo

TwinWriteBuff ==
    \E buff \in Sources :
        LET r == writeBuff(cur, buff, Len(buff))
            t == writeBuff(ref, buff, Len(buff))
        IN  /\ TwinCall("writeBuff", buff, r.st, r.ret, 0, t.st, t.ret, 0)
            /\ fifo' = fifo \o Take(buff, r.ret)

TwinReadBuff ==
    \E count \in 0..MaxCount :
        LET r == readBuff(cur, FreshDest, count)
            t == readBuff(ref, FreshDest, count)
        IN  /\ TwinCall("readBuff", count, r.st, r.ret, r.out,
                        t.st, t.ret, t.out)
            /\ fifo' = Drop(fifo, r.ret)

TwinClear ==
    /\ TwinCall("clear", 0, clear(cur), 0, 0, clear(ref), 0, 0)
    /\ fifo' = <<>>

TwinReadAvailable ==
    /\ TwinCall("readAvailable", 0, cur, readAvailable(cur), 0,
                ref, readAvailable(ref), 0)
    /\ fifo' = fifo

TwinWriteAvailable ==
    /\ TwinCall("writeAvailable", 0, cur, writeAvailable(cur), 0,
                ref, writeAvailable(ref), 0)
    /\ fifo' = fifo

TwinIsEmpty ==
    /\ TwinCall("isEmpty", 0, cur, isEmpty(cur), 0, ref, isEmpty(ref), 0)
    /\ fifo' = fifo

TwinIsFull ==
    /\ TwinCall("isFull", 0, cur, isFull(cur), 0, ref, isFull(ref), 0)
    /\ fifo' = fifo

\* The caller takes the results of the call that returned on both objects.
TwinReturn ==
    /\ call.op \notin {"idle", "raw"}
    /\ call' = Idle
    /\ twin' = [twin EXCEPT !.ret = 0, !.out = 0]
    /\ UNCHANGED <<m_head, m_tail, m_dataBuff, fifo, inst, thr>>

NextSkip ==
    \/ SkipClear
    \/ TwinInsert
    \/ TwinInsertPtr
    \/ TwinRemove
    \/ TwinRemoveN
    \/ TwinRemoveOut
    \/ TwinRemoveRef
    \/ TwinPeek
    \/ TwinAt
    \/ TwinWriteBuff
    \/ TwinReadBuff
    \/ TwinClear
    \/ TwinReadAvailable
    \/ TwinWriteAvailable
    \/ TwinIsEmpty
    \/ TwinIsFull
    \/ TwinReturn

SpecSkip == InitSkip /\ [][NextSkip]_vars

\* C13: skip-initialization construction followed by clear() gives a usable
\* empty buffer.  Whatever m_head, m_tail and the elements held, after the one
\* clear() every call returns what the same call returns on a
\* default-constructed buffer that received the same calls (for peek and at:
\* null or not, and the element pointed to), remove(out) delivers the values
\* in the order they were inserted, and insert is rejected exactly when
\* buffer_size elements are held.
C13_SkipInitThenClear ==
    [][(call.op = "idle" /\ call'.op # "idle") =>
          /\ IF call'.op \in {"peek", "at"}
             THEN (call'.ret = NULL) <=> (twin'.ret = NULL)
             ELSE call'.ret = twin'.ret
          /\ call'.out = twin'.out
          /\ (call'.op \in {"removeOut", "removeRef"} /\ call'.ret = TRUE) =>
                 call'.out = Head(fifo)
          /\ call'.op \in {"insert", "insertPtr"} =>
                 ((call'.ret = FALSE) <=> (Len(fifo) = buffer_size))]_vars

----------------------------------------------------------------------------
(* One thread calling insert(const T *data) and one calling remove(T *data)  *)
(* on one object without synchronization.  Each read or write of m_head,       *)
(* m_tail or a slot is one step; a thread's read of the counter only it      *)
(* writes is taken together with its read of the other counter.  The         *)
(* post-increment of the subscript takes effect before the slot is accessed. *)
(* fifo holds the values whose insert has advanced m_head and whose remove   *)
(* has not advanced m_tail.                                                  *)

\* The producer begins at most MaxBegun calls of insert.
MaxBegun == 3

\* The producer calls insert(&data).
ProducerCall ==
    \E data \in Values :
        /\ thr.ppc = "idle"
        /\ thr.begun < MaxBegun
        /\ thr' = [thr EXCEPT !.ppc = "test", !.pdata = data,
                              !.begun = thr.begun + 1]
        /\ UNCHANGED <<m_head, m_tail, m_dataBuff, call, fifo, inst, twin>>

\* if ((m_head - m_tail) == buffer_size) return false;
ProducerTest ==
    /\ thr.ppc = "test"
    /\ thr' = IF (m_head - m_tail) = buffer_size
              THEN [thr EXCEPT !.ppc = "idle", !.pret = FALSE]
              ELSE [thr EXCEPT !.ppc = "inc"]
    /\ UNCHANGED <<m_head, m_tail, m_dataBuff, call, fifo, inst, twin>>

\* m_head++ & buffer_mask: the subscript is the old m_head, m_head is advanced.
ProducerIncHead ==
    /\ thr.ppc = "inc"
    /\ m_head' = ToIndex(m_head + 1)
    /\ thr' = [thr EXCEPT !.ppc = "store", !.pslot = Slot(m_head)]
    /\ fifo' = Append(fifo, thr.pdata)
    /\ UNCHANGED <<m_tail, m_dataBuff, call, inst, twin>>

\* m_dataBuff[...] = *data; return true;  hit records a store into the slot a
\* remove has claimed and not yet read.
ProducerStore ==
    /\ thr.ppc = "store"
    /\ m_dataBuff' = [m_dataBuff EXCEPT ![thr.pslot] = thr.pdata]
    /\ thr' = [thr EXCEPT !.ppc = "idle", !.pret = TRUE,
                          !.hit = thr.hit \/ (thr.cpc = "load"
                                              /\ thr.cslot = thr.pslot)]
    /\ UNCHANGED <<m_head, m_tail, call, fifo, inst, twin>>

\* The consumer calls remove(&out).
ConsumerCall ==
    /\ thr.cpc = "idle"
    /\ thr' = [thr EXCEPT !.cpc = "test"]
    /\ UNCHANGED <<m_head, m_tail, m_dataBuff, call, fifo, inst, twin>>

\* if (m_tail == m_head) return false;
ConsumerTest ==
    /\ thr.cpc = "test"
    /\ thr' = IF m_tail = m_head
              THEN [thr EXCEPT !.cpc = "idle", !.cret = FALSE]
              ELSE [thr EXCEPT !.cpc = "inc"]
    /\ UNCHANGED <<m_head, m_tail, m_dataBuff, call, fifo, inst, twin>>

\* m_tail++ & buffer_mask: the subscript is the old m_tail, m_tail is advanced.
\* expect is the oldest value inserted and not removed.
ConsumerIncTail ==
    /\ thr.cpc = "inc"
    /\ m_tail' = ToIndex(m_tail + 1)
    /\ thr' = [thr EXCEPT !.cpc = "load", !.cslot = Slot(m_tail),
                          !.expect = Head(fifo), !.hit = FALSE]
    /\ fifo' = Tail(fifo)
    /\ UNCHANGED <<m_head, m_dataBuff, call, inst, twin>>

\* ConsumerLoad reading the slot after the one it claimed.
ConsumerLoad_NextSlot ==
    /\ thr.cpc = "load"
    /\ thr' = [thr EXCEPT !.cpc = "idle", !.cret = TRUE,
                          !.cout = m_dataBuff[Slot(thr.cslot + 1)]]
    /\ UNCHANGED <<m_head, m_tail, m_dataBuff, call, fifo, inst, twin>>

\* *data = m_dataBuff[...]; return true;
ConsumerLoad ==
    /\ thr.cpc = "load"
    /\ thr' = [thr EXCEPT !.cpc = "idle", !.cret = TRUE,
                          !.cout = m_dataBuff[thr.cslot]]
    /\ UNCHANGED <<m_head, m_tail, m_dataBuff, call, fifo, inst, twin>>

NextThreads ==
    \/ ProducerCall
    \/ ProducerTest
    \/ ProducerIncHead
    \/ ProducerStore
    \/ ConsumerCall
    \/ ConsumerTest
    \/ ConsumerIncTail
    \/ ConsumerLoad

SpecThreads == Init /\ [][NextThreads]_vars

\* C15: the buffer is not safe for unsynchronized concurrent producer/consumer
\* use.  A remove(out) that returns true delivers a value other than the
\* oldest inserted-and-unremoved one in some interleaving (the witness), and
\* only in interleavings where its slot read raced with an insert: either the
\* producer had advanced m_head over that slot and not yet stored into it, or
\* the producer stored into it after the remove had advanced m_tail.
C15_WrongValueOnlyByRace ==
    [][(thr.cpc = "load" /\ thr'.cpc = "idle" /\ thr'.cout # thr.expect) =>
          \/ thr.ppc = "store" /\ thr.pslot = thr.cslot
          \/ thr.hit]_vars

\* C15 witness: a remove(out) has returned true with a value other than the
\* oldest inserted-and-unremoved one.
C15_Witness ==
    /\ thr.cpc = "idle"
    /\ thr.cret = TRUE
    /\ thr.cout # thr.expect

----------------------------------------------------------------------------
(* The drain loop of main, entered between any two calls *)

\* while (pBuffer->readAvailable()) is reached: call.arg is readAvailable() at
\* that moment, call.ret counts the iterations, call.out tells whether every
\* remove(&dpr) so far returned true.
DrainBegin ==
    /\ CallOK
    /\ call' = [op |-> "drain", arg |-> readAvailable(cur), ret |-> 0,
                out |-> TRUE]
    /\ UNCHANGED <<m_head, m_tail, m_dataBuff, fifo, inst, twin, thr>>

\* The loop leaving when readAvailable() <= 1.
DrainEnd_Early ==
    /\ call.op = "drain"
    /\ readAvailable(cur) <= 1
    /\ call' = [call EXCEPT !.op = "drained"]
    /\ UNCHANGED <<m_head, m_tail, m_dataBuff, fifo, inst, twin, thr>>

\* One iteration: readAvailable() is not 0; bool res = pBuffer->remove(&dpr).
DrainIterate ==
    LET r == removeOut(cur, DefaultValue) IN
    /\ call.op = "drain"
    /\ readAvailable(cur) # 0
    /\ Commit(r.st)
    /\ call' = [call EXCEPT !.ret = call.ret + 1, !.out = call.out /\ r.ret]
    /\ fifo' = IF r.ret THEN Tail(fifo) ELSE fifo
    /\ UNCHANGED <<inst, twin, thr>>

\* readAvailable() is 0: the loop is left.
DrainEnd ==
    /\ call.op = "drain"
    /\ readAvailable(cur) = 0
    /\ call' = [call EXCEPT !.op = "drained"]
    /\ UNCHANGED <<m_head, m_tail, m_dataBuff, fifo, inst, twin, thr>>

NextDrain ==
    \/ Next
    \/ DrainBegin
    \/ DrainIterate
    \/ DrainEnd

\* main is sequential code: once in the loop it takes its next step.
SpecDrain ==
    /\ Init
    /\ [][NextDrain]_vars
    /\ WF_vars(DrainIterate)
    /\ WF_vars(DrainEnd)

\* C17: draining terminates.  The loop while (readAvailable()) remove(out),
\* entered in any reachable state with readAvailable() = n, is left; it is
\* left after exactly n iterations in which every remove(out) returned true,
\* with isEmpty() true and writeAvailable() = buffer_size.
C17_DrainTerminates ==
    /\ [][(call.op = "drain" /\ call'.op = "drained") =>
             /\ call.ret = call.arg
             /\ call.out = TRUE
             /\ isEmpty(cur)
             /\ writeAvailable(cur) = buffer_size]_vars
    /\ (call.op = "drain") ~> (call.op = "drained")

\* C17 witness: the loop has been left after two iterations, entered when
\* m_head had wrapped and m_tail had not.
C17_Witness ==
    /\ call.op = "drained"
    /\ call.arg = buffer_size
    /\ call.ret = buffer_size
    /\ m_head = 0
    /\ m_tail = 0
    /\ m_dataBuff[0] # DefaultValue

====
